---- MODULE Spec2Model ----
(***************************************************************************)
(* A model of app/utils/helpers.ts and app/utils/model_fetcher.ts: the     *)
(* browser header builder, the token provider, the last-user-text          *)
(* extraction, the upstream call and the model registry.                   *)
(*                                                                         *)
(* A JavaScript string is a sequence of tokens (<<>> is the empty string,  *)
(* \o is concatenation); a JavaScript value of unknown type (JSON from a   *)
(* server, a field of a caller's object) is a record tagged with its type. *)
(***************************************************************************)
EXTENDS Integers, Sequences, FiniteSets, TLC

VARIABLES
    config,             \* the imported configuration object (read only)
    userAgentInstance,  \* helpers.ts:9, the module-level _userAgentInstance
    now,                \* the wall clock Date.now() reads
    pc,                 \* where the call in progress stands
    op,                 \* the function that was called
    args,               \* its arguments
    locals,             \* its local variables that live across an await
    inflight,           \* the fetch() awaiting its response
    history,            \* every fetch() issued and every response, in order
    result              \* what the call handed to its caller

vars == <<config, userAgentInstance, now, pc, op, args, locals, inflight, history, result>>

----------------------------------------------------------------------------
(* Bounds of the model. *)

\* Date.now() never exceeds MaxTime
MaxTime == 1
\* the longest refererChatId, in tokens
MaxRef == 3
\* the longest message list
MaxMsgs == 2
\* the longest content-part list of a message
MaxParts == 2
\* the longest model list the models endpoint answers with
MaxFetched == 2

----------------------------------------------------------------------------
(* JavaScript values. *)

Undefined == [t |-> "undefined"]
Null == [t |-> "null"]
Str(s) == [t |-> "string", v |-> s]
Num(n) == [t |-> "number", v |-> n]
Bool(b) == [t |-> "boolean", v |-> b]
\* v: the elements, in order
Arr(a) == [t |-> "array", v |-> a]
\* v: the own enumerable entries <<key, value>>, in Object.entries order
Obj(e) == [t |-> "object", v |-> e]

\* ToBoolean: what `if (x)`, `!x` and `x || y` test
Truthy(x) ==
    CASE x.t = "undefined" -> FALSE
      [] x.t = "null" -> FALSE
      [] x.t = "string" -> x.v # <<>>
      [] x.t = "number" -> x.v # 0
      [] x.t = "boolean" -> x.v
      [] OTHER -> TRUE

\* x || y
Or(x, y) == IF Truthy(x) THEN x ELSE y

\* x ?? y
Coalesce(x, y) == IF x.t \in {"undefined", "null"} THEN y ELSE x

HasKey(o, k) == \E i \in 1..Len(o.v) : o.v[i][1] = k

\* o.k for an object o; undefined when o has no such property
Get(o, k) ==
    IF o.t = "object" /\ HasKey(o, k)
    THEN LET i == CHOOSE j \in 1..Len(o.v) : o.v[j][1] = k IN o.v[i][2]
    ELSE Undefined

\* String(x)
StringOf(x) ==
    CASE x.t = "string" -> x.v
      [] x.t = "number" -> <<ToString(x.v)>>
      [] x.t = "boolean" -> IF x.v THEN <<"true">> ELSE <<"false">>
      [] x.t = "undefined" -> <<"undefined">>
      [] x.t = "null" -> <<"null">>
      [] x.t = "array" -> <<"[array]">>
      [] OTHER -> <<"[object Object]">>

Range(s) == {s[i] : i \in 1..Len(s)}

RECURSIVE Repeat(_, _)
Repeat(tok, n) == IF n = 0 THEN <<>> ELSE <<tok>> \o Repeat(tok, n - 1)

\* results of a call
NoResult == [kind |-> "none"]
Return(v) == [kind |-> "return", value |-> v]
Throw(e) == [kind |-> "throw", error |-> e]

None == [kind |-> "none"]

----------------------------------------------------------------------------
(* The configuration object, ../core/config.ts (an external collaborator). *)

ModelFields ==
    <<"PRIMARY_MODEL", "THINKING_MODEL", "SEARCH_MODEL", "AIR_MODEL",
      "PRIMARY_MODEL_NEW", "THINKING_MODEL_NEW", "SEARCH_MODEL_NEW">>

DistinctIds ==
    <<"GLM-4.5", "GLM-4.5-Thinking", "GLM-4.5-Search", "GLM-4.5-Air",
      "GLM-4.6", "GLM-4.6-Thinking", "GLM-4.6-Search">>

\* a deployment that names the same model for two roles
RepeatedIds ==
    <<"GLM-4.5", "GLM-4.5-Thinking", "GLM-4.5-Search", "GLM-4.5-Air",
      "GLM-4.5", "GLM-4.5-Thinking", "GLM-4.6-Search">>

MakeConfig(anonymous, ids) ==
    [Origin |-> <<"https://chat.z.ai">>,
     API_ENDPOINT |-> <<"https://chat.z.ai/api/chat/completions">>,
     ANONYMOUS_MODE |-> anonymous,
     BACKUP_TOKEN |-> <<"backup-token">>,
     MODELS |-> ids]

ModelId(cfg, field) ==
    LET i == CHOOSE j \in 1..Len(ModelFields) : ModelFields[j] = field
    IN <<cfg.MODELS[i]>>

----------------------------------------------------------------------------
(* helpers.ts: the User-Agent cache and the header builder. *)

UaChromeWin ==
    <<"Mozilla/5.0 (Windows NT 10.0; Win64; x64) AppleWebKit/537.36 (KHTML, like Gecko) ",
      "Chrome/", "139", ".", "0", ".", "0", ".", "0", " Safari/537", ".", "36">>
UaEdgeWin ==
    <<"Mozilla/5.0 (Windows NT 10.0; Win64; x64) AppleWebKit/537.36 (KHTML, like Gecko) ",
      "Chrome/", "139", ".", "0", ".", "0", ".", "0", " Safari/537", ".", "36 ",
      "Edg/", "139", ".", "0", ".", "0", ".", "0">>
UaChromeMac ==
    <<"Mozilla/5.0 (Macintosh; Intel Mac OS X 10_15_7) AppleWebKit/537.36 (KHTML, like Gecko) ",
      "Chrome/", "139", ".", "0", ".", "0", ".", "0", " Safari/537", ".", "36">>
UaChromeLinux ==
    <<"Mozilla/5.0 (X11; Linux x86_64) AppleWebKit/537.36 (KHTML, like Gecko) ",
      "Chrome/", "139", ".", "0", ".", "0", ".", "0", " Safari/537", ".", "36">>
UaFirefox ==
    <<"Mozilla/5.0 (Windows NT 10.0; Win64; x64; rv:109.0) Gecko/20100101 ",
      "Firefox/", "121", ".", "0">>
UaSafari ==
    <<"Mozilla/5.0 (Macintosh; Intel Mac OS X 10_15_7) AppleWebKit/605.1.15 (KHTML, like Gecko) Version/17.1 ",
      "Safari/605", ".", "1", ".", "15">>

userAgents == <<UaChromeWin, UaEdgeWin, UaChromeMac, UaChromeLinux>>

\* Math.floor(Math.random() * userAgents.length), counted from 1
RandomUaIndex == 1..Len(userAgents)

\* the cache after getUserAgentInstance(): built on the first call, with r the
\* random draw, and returned as it is afterwards
getUserAgentInstance(cache, r) ==
    IF cache = Null
    THEN [chrome |-> userAgents[1],
          edge |-> userAgents[2],
          firefox |-> UaFirefox,
          safari |-> UaSafari,
          random |-> userAgents[r]]
    ELSE cache

browserChoices == <<"chrome", "chrome", "chrome", "edge", "edge", "firefox", "safari">>

\* Math.floor(Math.random() * browserChoices.length), counted from 1
RandomSlot == 1..Len(browserChoices)

\* s.includes(marker)
Includes(s, marker) == marker \in Range(s)

\* s.split(marker)[1]: what lies between the first marker and the next one
AfterMarker(s, marker) ==
    LET first == CHOOSE i \in 1..Len(s) :
                    s[i] = marker /\ \A j \in 1..(i - 1) : s[j] # marker
        later == {i \in (first + 1)..Len(s) : s[i] = marker}
        stop == IF later = {} THEN Len(s) + 1
                ELSE CHOOSE i \in later : \A j \in later : i <= j
    IN SubSeq(s, first + 1, stop - 1)

\* s.split(".")[0]
BeforeDot(s) ==
    LET dots == {i \in 1..Len(s) : s[i] = "."}
        stop == IF dots = {} THEN Len(s) + 1
                ELSE CHOOSE i \in dots : \A j \in dots : i <= j
    IN SubSeq(s, 1, stop - 1)

\* the switch of getBrowserHeaders
UserAgentFor(ua, browserType) ==
    CASE browserType = "chrome" -> ua.chrome
      [] browserType = "edge" -> ua.edge
      [] browserType = "firefox" -> ua.firefox
      [] browserType = "safari" -> ua.safari
      [] OTHER -> ua.random

ChromeVersionOf(userAgent) ==
    IF Includes(userAgent, "Chrome/")
    THEN BeforeDot(AfterMarker(userAgent, "Chrome/"))
    ELSE <<"139">>

\* secChUa given to user agents that name Chrome or Edge only
SecChUaOf_ChromiumOnly(userAgent) ==
    LET chromeVersion == ChromeVersionOf(userAgent) IN
    IF Includes(userAgent, "Edg/")
    THEN Str(<<"\"Microsoft Edge\";v=\"">> \o BeforeDot(AfterMarker(userAgent, "Edg/"))
             \o <<"\", \"Chromium\";v=\"">> \o chromeVersion
             \o <<"\", \"Not_A Brand\";v=\"24\"">>)
    ELSE IF Includes(userAgent, "Chrome/")
    THEN Str(<<"\"Not_A Brand\";v=\"8\", \"Chromium\";v=\"">> \o chromeVersion
             \o <<"\", \"Google Chrome\";v=\"">> \o chromeVersion \o <<"\"">>)
    ELSE Undefined

\* secChUa: a string, or undefined for Firefox
SecChUaOf(userAgent) ==
    LET chromeVersion == ChromeVersionOf(userAgent) IN
    IF Includes(userAgent, "Edg/")
    THEN LET edgeVersion == BeforeDot(AfterMarker(userAgent, "Edg/")) IN
         Str(<<"\"Microsoft Edge\";v=\"">> \o edgeVersion
             \o <<"\", \"Chromium\";v=\"">> \o chromeVersion
             \o <<"\", \"Not_A Brand\";v=\"24\"">>)
    ELSE IF Includes(userAgent, "Firefox/")
    THEN Undefined
    ELSE Str(<<"\"Not_A Brand\";v=\"8\", \"Chromium\";v=\"">> \o chromeVersion
             \o <<"\", \"Google Chrome\";v=\"">> \o chromeVersion \o <<"\"">>)

\* the headers getBrowserHeaders(refererChatId) returns once the cache is ua
\* and the random draw chose browserType
getBrowserHeaders(cfg, ua, browserType, refererChatId) ==
    LET userAgent == UserAgentFor(ua, browserType)
        secChUa == SecChUaOf(userAgent)
        base ==
            [h \in {"Content-Type", "Accept", "User-Agent", "Accept-Language",
                    "sec-ch-ua-mobile", "sec-ch-ua-platform", "sec-fetch-dest",
                    "sec-fetch-mode", "sec-fetch-site", "X-FE-Version", "Origin",
                    "Cache-Control", "Pragma"} |->
                CASE h = "Content-Type" -> <<"application/json">>
                  [] h = "Accept" -> <<"application/json, text/event-stream">>
                  [] h = "User-Agent" -> userAgent
                  [] h = "Accept-Language" -> <<"zh-CN,zh;q=0.9,en;q=0.8,en-US;q=0.7">>
                  [] h = "sec-ch-ua-mobile" -> <<"?0">>
                  [] h = "sec-ch-ua-platform" -> <<"\"Windows\"">>
                  [] h = "sec-fetch-dest" -> <<"empty">>
                  [] h = "sec-fetch-mode" -> <<"cors">>
                  [] h = "sec-fetch-site" -> <<"same-origin">>
                  [] h = "X-FE-Version" -> <<"prod-fe-1.0.79">>
                  [] h = "Origin" -> cfg.Origin
                  [] h = "Cache-Control" -> <<"no-cache">>
                  [] OTHER -> <<"no-cache">>]
        withSec == IF Truthy(secChUa) THEN ("sec-ch-ua" :> secChUa.v) @@ base ELSE base
    IN IF refererChatId # <<>>
       THEN ("Referer" :> (cfg.Origin \o <<"/c/">> \o refererChatId)) @@ withSec
       ELSE withSec

\* headers[name] = value
SetHeader(headers, name, value) == (name :> value) @@ headers

----------------------------------------------------------------------------
(* The calls: each starts from pc = "idle" and ends in pc = "done". *)

Idle ==
    /\ pc = "idle"
    /\ op = "none"

\* the caller takes the result; the module is ready for the next call
ReturnToCaller ==
    /\ pc = "done"
    /\ pc' = "idle"
    /\ op' = "none"
    /\ args' = None
    /\ locals' = None
    /\ inflight' = None
    /\ history' = <<>>
    /\ result' = NoResult
    /\ UNCHANGED <<config, userAgentInstance, now>>

RefererIds == {Repeat("c", n) : n \in 0..MaxRef}

\* getBrowserHeaders(refererChatId), called on its own
Call_getBrowserHeaders ==
    /\ Idle
    /\ \E refererChatId \in RefererIds, r \in RandomUaIndex, slot \in RandomSlot :
        LET ua == getUserAgentInstance(userAgentInstance, r) IN
        /\ userAgentInstance' = ua
        /\ op' = "getBrowserHeaders"
        /\ args' = [refererChatId |-> refererChatId]
        /\ locals' = [slot |-> slot, browserType |-> browserChoices[slot]]
        /\ result' = Return(getBrowserHeaders(config, ua, browserChoices[slot], refererChatId))
        /\ pc' = "done"
    /\ UNCHANGED <<config, now, inflight, history>>

InitWith(cfg) ==
    /\ config = cfg
    /\ userAgentInstance = Null
    /\ now = 0
    /\ pc = "idle"
    /\ op = "none"
    /\ args = None
    /\ locals = None
    /\ inflight = None
    /\ history = <<>>
    /\ result = NoResult

InitHeaders == InitWith(MakeConfig(TRUE, DistinctIds))

NextHeaders ==
    \/ Call_getBrowserHeaders
    \/ ReturnToCaller

SpecHeaders == InitHeaders /\ [][NextHeaders]_vars

----------------------------------------------------------------------------
(* helpers.ts: the legacy signature and the token provider. *)

\* Date.now() may return any instant from now on; the clock counts seconds
ClockReads == now..MaxTime

\* Date.now(), in milliseconds, read at instant t
DateNow(t) == t * 1000

\* the hex digest of HMAC-SHA256(key, message): a symbolic, injective term
hmacSha256Hex(key, message) ==
    <<"hmac-sha256(">> \o key \o <<"|">> \o message \o <<")">>

\* 8 random bytes in hex, cut to 16 characters
Nonces == {<<"00112233445566aa">>, <<"ffeeddccbbaa9901">>}

\* generateLegacySignatureHeaders(token, body, method), the clock read at t
\* and nonce drawn at random
generateLegacySignatureHeaders(token, body, method, t, nonce) ==
    LET timestamp == <<ToString(DateNow(t))>>
        signString == method \o <<"\n">> \o timestamp \o <<"\n">> \o nonce
                         \o <<"\n">> \o body
    IN [h \in {"X-Timestamp", "X-Nonce", "X-Signature"} |->
          CASE h = "X-Timestamp" -> timestamp
            [] h = "X-Nonce" -> nonce
            [] OTHER -> hmacSha256Hex(token, signString)]

\* the request getAnonymousToken() sends
AnonymousTokenRequest(cfg, ua, browserType, t, nonce) ==
    LET h0 == getBrowserHeaders(cfg, ua, browserType, <<>>)
        h1 == SetHeader(h0, "Accept", <<"*/*">>)
        h2 == SetHeader(h1, "Accept-Language", <<"zh-CN,zh;q=0.9">>)
        h3 == SetHeader(h2, "Referer", cfg.Origin \o <<"/">>)
        signatureHeaders ==
            generateLegacySignatureHeaders(<<"anonymous">>, <<>>, <<"GET">>, t, nonce)
    IN [endpoint |-> "auths",
        method |-> "GET",
        url |-> cfg.Origin \o <<"/api/v1/auths/">>,
        headers |-> signatureHeaders @@ h3]

\* what a fetch() can come to: the transport fails, the timeout aborts it, or
\* a response arrives with a status and a body
IsOk(status) == 200 <= status /\ status <= 299

Failed(kind) == [kind |-> kind]
Response(status, body) == [kind |-> "response", status |-> status, body |-> body]

\* a body that is not JSON: response.json() throws
NotJson == [t |-> "not-json"]

AnonToken == <<"anon-token">>

AuthBodies ==
    {NotJson, Null, Num(5), Obj(<<>>),
     Obj(<< <<"token", Null>> >>),
     Obj(<< <<"token", Str(<<>>)>> >>),
     Obj(<< <<"token", Num(0)>> >>),
     Obj(<< <<"token", Num(12345)>> >>),
     Obj(<< <<"token", Str(AnonToken)>> >>)}

AuthResponses ==
    {Failed("network-error"), Failed("timeout")}
        \cup {Response(s, Obj(<<>>)) : s \in {401, 500}}
        \cup {Response(s, b) : s \in {200}, b \in AuthBodies}

\* x.k throws a TypeError when x is null or undefined
CanRead(x) == x.t \notin {"undefined", "null"}

\* what getAnonymousToken() comes to when its fetch() came to resp
getAnonymousToken(resp) ==
    IF resp.kind # "response" THEN Throw(resp.kind)
    ELSE IF ~IsOk(resp.status) THEN Throw("anon token status")
    ELSE IF resp.body = NotJson THEN Throw("SyntaxError")
    ELSE IF ~CanRead(resp.body) THEN Throw("TypeError")
    ELSE LET token == Get(resp.body, "token") IN
         IF ~Truthy(token) THEN Throw("anon token empty") ELSE Return(token)

\* token.substring(0, 10), evaluated for the debug line, throws a TypeError
\* unless token is a string
HasSubstring(token) == token.t = "string"

\* what getAuthToken() returns once getAnonymousToken() came to outcome
getAuthTokenAfter(cfg, outcome) ==
    IF outcome.kind = "return" /\ HasSubstring(outcome.value)
    THEN Return(outcome.value)
    ELSE Return(Str(cfg.BACKUP_TOKEN))

Request(req) == [ev |-> "request", endpoint |-> req.endpoint,
                 authorization |-> IF "Authorization" \in DOMAIN req.headers
                                   THEN Str(req.headers["Authorization"])
                                   ELSE Undefined]
Received(endpoint, resp) == [ev |-> "response", endpoint |-> endpoint, response |-> resp]

\* getAnonymousToken() up to its await of fetch(), called at instant from
Send_getAnonymousToken(from) ==
    \E r \in RandomUaIndex, slot \in RandomSlot, t \in from..MaxTime, nonce \in Nonces :
        LET ua == getUserAgentInstance(userAgentInstance, r)
            req == AnonymousTokenRequest(config, ua, browserChoices[slot], t, nonce)
        IN /\ userAgentInstance' = ua
           /\ now' = t
           /\ inflight' = req
           /\ history' = Append(history, Request(req))
           /\ pc' = "auth_wait"

\* getAuthToken(): with anonymous mode off it returns at once
Call_getAuthToken ==
    /\ Idle
    /\ op' = "getAuthToken"
    /\ args' = None
    /\ locals' = None
    /\ IF config.ANONYMOUS_MODE
       THEN /\ Send_getAnonymousToken(now)
            /\ UNCHANGED result
       ELSE /\ result' = Return(Str(config.BACKUP_TOKEN))
            /\ pc' = "done"
            /\ UNCHANGED <<userAgentInstance, now, inflight, history>>
    /\ UNCHANGED config

\* the fetch() of getAnonymousToken() settles and getAuthToken() runs to its end
Resume_getAuthToken ==
    /\ pc = "auth_wait"
    /\ op = "getAuthToken"
    /\ \E resp \in AuthResponses :
        /\ history' = Append(history, Received("auths", resp))
        /\ result' = getAuthTokenAfter(config, getAnonymousToken(resp))
    /\ inflight' = None
    /\ pc' = "done"
    /\ UNCHANGED <<config, userAgentInstance, now, op, args, locals>>

InitToken == \E anonymous \in BOOLEAN : InitWith(MakeConfig(anonymous, DistinctIds))

NextToken ==
    \/ Call_getAuthToken
    \/ Resume_getAuthToken
    \/ ReturnToCaller

SpecToken == InitToken /\ [][NextToken]_vars

\* the response the auths endpoint gave in this call, if it was asked
AuthAnswered == \E i \in 1..Len(history) :
                   history[i].ev = "response" /\ history[i].endpoint = "auths"
AuthResponse ==
    LET i == CHOOSE j \in 1..Len(history) :
                history[j].ev = "response" /\ history[j].endpoint = "auths"
    IN history[i].response

----------------------------------------------------------------------------
(* C1: getAuthToken never fails; with anonymous mode on and                *)
(* getAnonymousToken succeeding it returns that token, and in every other  *)
(* case the configured backup token.                                       *)

C1_AuthTokenAsClaimed ==
    (pc = "done" /\ op = "getAuthToken") =>
        /\ result.kind = "return"
        /\ IF config.ANONYMOUS_MODE /\ getAnonymousToken(AuthResponse).kind = "return"
           THEN result.value = getAnonymousToken(AuthResponse).value
           ELSE result.value = Str(config.BACKUP_TOKEN)

----------------------------------------------------------------------------
(* model_fetcher.ts: the model registry. *)

ZAIModel(id, name, created, owned_by) ==
    [id |-> id, name |-> name, created |-> created, owned_by |-> owned_by]

\* getDefaultModels(), the clock read at instant t
getDefaultModels(cfg, t) ==
    [i \in 1..Len(ModelFields) |->
        ZAIModel(Str(ModelId(cfg, ModelFields[i])), Str(ModelId(cfg, ModelFields[i])),
                 Num(t), Str(<<"z.ai">>))]

\* fetchLatestModels() taking its token the way getAuthToken() does
TokenForModels_Fallback(cfg, outcome) == getAuthTokenAfter(cfg, outcome)

\* the token fetchLatestModels() goes on with once getAnonymousToken() came to
\* outcome: its inner catch returns [] when the call, or the debug line's
\* authToken.substring, throws
TokenForModels(cfg, outcome) ==
    IF outcome.kind = "return" /\ HasSubstring(outcome.value)
    THEN outcome
    ELSE Throw("tokenError")

\* the request fetchLatestModels() sends
ModelsRequest(cfg, ua, browserType, authToken) ==
    LET h0 == getBrowserHeaders(cfg, ua, browserType, <<>>)
        h1 == SetHeader(h0, "Accept", <<"application/json">>)
        h2 == SetHeader(h1, "Authorization", <<"Bearer ">> \o authToken.v)
        h3 == SetHeader(h2, "User-Agent",
                 <<"Mozilla/5.0 (X11; Linux x86_64) AppleWebKit/537.36 (KHTML, like Gecko) ",
                   "Chrome/", "140", ".", "0", ".", "0", ".", "0", " Safari/537", ".", "36 ",
                   "Edg/", "140", ".", "0", ".", "0", ".", "0">>)
    IN [endpoint |-> "models",
        method |-> "GET",
        url |-> <<"https://chat.z.ai/api/models">>,
        headers |-> h3]

\* what fetchLatestModels() returns once its fetch() came to resp
fetchLatestModelsAfter(resp) ==
    IF resp.kind # "response" THEN Arr(<<>>)
    ELSE IF ~IsOk(resp.status) THEN Arr(<<>>)
    ELSE IF resp.body = NotJson THEN Arr(<<>>)
    ELSE IF ~CanRead(resp.body) THEN Arr(<<>>)
    ELSE Or(Get(resp.body, "data"), Arr(<<>>))

\* x.length
LengthOf(x) ==
    CASE x.t \in {"array", "string"} -> Num(Len(x.v))
      [] OTHER -> Get(x, "length")

\* x?.k
OptGet(x, k) == IF CanRead(x) THEN Get(x, k) ELSE Undefined

\* modelMap.set(key, value): a Map keeps the place of a key it already holds
MapSet(map, key, value) ==
    IF \E i \in 1..Len(map) : map[i][1] = key
    THEN [i \in 1..Len(map) |-> IF map[i][1] = key THEN <<key, value>> ELSE map[i]]
    ELSE Append(map, <<key, value>>)

RECURSIVE MapOfModels(_, _)
\* defaultModels.forEach(model => modelMap.set(model.id, model))
MapOfModels(map, models) ==
    IF models = <<>> THEN map
    ELSE MapOfModels(MapSet(map, Head(models).id, Head(models)), Tail(models))

\* the entry built with ?? in place of ||
LatestEntry_Nullish(model, t) ==
    LET modelId == Get(model, "id")
        info == Get(model, "info")
    IN ZAIModel(modelId,
                Coalesce(Coalesce(Get(model, "name"), OptGet(info, "name")), modelId),
                Coalesce(Coalesce(Get(model, "created"), OptGet(info, "created_at")), Num(t)),
                Coalesce(Coalesce(Get(model, "owned_by"), OptGet(info, "user_id")),
                         Str(<<"z.ai">>)))

\* the entry the second forEach builds from a fetched model, the clock read at t
LatestEntry(model, t) ==
    LET modelId == Get(model, "id")
        info == Get(model, "info")
        modelName == Or(Or(Get(model, "name"), OptGet(info, "name")), modelId)
    IN ZAIModel(modelId,
                modelName,
                Or(Or(Get(model, "created"), OptGet(info, "created_at")), Num(t)),
                Or(Or(Get(model, "owned_by"), OptGet(info, "user_id")), Str(<<"z.ai">>)))

RECURSIVE OverlayLatest(_, _, _)
\* latestModels.forEach(...), the i-th model handled at instant ts[i]
OverlayLatest(map, models, ts) ==
    IF models = <<>> THEN map
    ELSE OverlayLatest(MapSet(map, Get(Head(models), "id"), LatestEntry(Head(models), Head(ts))),
                       Tail(models), Tail(ts))

\* Array.from(modelMap.values())
MapValues(map) == [i \in 1..Len(map) |-> map[i][2]]

\* the try block of getAvailableModels() once fetchLatestModels() returned
\* latestModels: the merged list, no list (the if is skipped), or a TypeError
MergeModels(defaultModels, latestModels, ts) ==
    LET length == LengthOf(latestModels) IN
    IF ~(length.t = "number" /\ length.v > 0) THEN None
    ELSE IF latestModels.t # "array" THEN Throw("TypeError")
    ELSE IF \E i \in 1..Len(latestModels.v) : ~CanRead(latestModels.v[i])
    THEN Throw("TypeError")
    ELSE Return(MapValues(OverlayLatest(MapOfModels(<<>>, defaultModels),
                                        latestModels.v, ts)))

\* getAvailableModels() without its try/catch
getAvailableModelsAfter_NoCatch(defaultModels, latestModels, ts) ==
    LET merged == MergeModels(defaultModels, latestModels, ts) IN
    IF merged.kind = "none" THEN Return(defaultModels) ELSE merged

\* what getAvailableModels() returns once fetchLatestModels() returned latestModels
getAvailableModelsAfter(defaultModels, latestModels, ts) ==
    LET merged == MergeModels(defaultModels, latestModels, ts) IN
    IF merged.kind = "return" THEN merged ELSE Return(defaultModels)

\* what the models endpoint may answer
NewId == <<"X">>
DefaultId == <<"GLM-4.5">>

FullInfo ==
    Obj(<< <<"name", Str(<<"InfoName">>)>>, <<"created_at", Num(9)>>,
           <<"user_id", Str(<<"info-user">>)>> >>)
FalsyInfo ==
    Obj(<< <<"name", Str(<<>>)>>, <<"created_at", Num(0)>>, <<"user_id", Str(<<>>)>> >>)

\* the fields a fetched model carries besides its id
ModelShapes ==
    { <<>>,
      << <<"name", Str(<<"Foo">>)>> >>,
      << <<"name", Str(<<"Bar">>)>>, <<"created", Num(7)>>,
         <<"owned_by", Str(<<"owner">>)>>, <<"info", FullInfo>> >>,
      << <<"name", Str(<<>>)>>, <<"created", Num(0)>>,
         <<"owned_by", Str(<<>>)>>, <<"info", FullInfo>> >>,
      << <<"info", FullInfo>> >>,
      << <<"info", FalsyInfo>> >>,
      << <<"info", Null>> >> }

\* the shapes in which a model that bears a default id is fetched
DefaultIdShapes ==
    { <<>>,
      << <<"name", Str(<<"Bar">>)>>, <<"created", Num(7)>>,
         <<"owned_by", Str(<<"owner">>)>>, <<"info", FullInfo>> >> }

FetchedModels ==
    {Null, Obj(<<>>)}
        \cup {Obj(<< <<"id", Str(NewId)>> >> \o shape) : shape \in ModelShapes}
        \cup {Obj(<< <<"id", Str(DefaultId)>> >> \o shape) : shape \in DefaultIdShapes}

FetchedLists == UNION {[1..n -> FetchedModels] : n \in 0..MaxFetched}

ModelsBodies ==
    {NotJson, Null, Num(5), Obj(<<>>),
     Obj(<< <<"data", Null>> >>),
     Obj(<< <<"data", Str(<<"oops">>)>> >>),
     Obj(<< <<"data", Num(7)>> >>),
     Obj(<< <<"data", Obj(<< <<"length", Num(2)>> >>)>> >>)}
        \cup {Obj(<< <<"data", Arr(list)>> >>) : list \in FetchedLists}

ModelsResponses ==
    {Failed("network-error"), Failed("timeout"), Response(500, Obj(<<>>))}
        \cup {Response(200, b) : b \in ModelsBodies}

\* the instants at which a loop of n steps may read a clock that stands at from
ClockSeqs(from, n) ==
    {ts \in [1..n -> from..MaxTime] : \A i \in 1..(n - 1) : ts[i] <= ts[i + 1]}

\* getAvailableModels() up to the await of getAnonymousToken()'s fetch()
Call_getAvailableModels ==
    /\ Idle
    /\ op' = "getAvailableModels"
    /\ args' = None
    /\ \E t0 \in ClockReads :
        /\ locals' = [defaultModels |-> getDefaultModels(config, t0),
                      latestModels |-> None]
        /\ Send_getAnonymousToken(t0)
    /\ UNCHANGED <<config, result>>

\* the fetch() of getAnonymousToken() settles: fetchLatestModels() either sends
\* its own request or returns [], and then getAvailableModels() runs to its end
Resume_fetchLatestModels ==
    /\ pc = "auth_wait"
    /\ op = "getAvailableModels"
    /\ \E resp \in AuthResponses, slot \in RandomSlot :
        LET authToken == TokenForModels(config, getAnonymousToken(resp)) IN
        IF authToken.kind = "return"
        THEN LET req == ModelsRequest(config, userAgentInstance, browserChoices[slot],
                                      authToken.value)
             IN /\ inflight' = req
                /\ history' = history \o <<Received("auths", resp), Request(req)>>
                /\ pc' = "models_wait"
                /\ UNCHANGED <<locals, result>>
        ELSE /\ inflight' = None
             /\ history' = Append(history, Received("auths", resp))
             /\ locals' = [locals EXCEPT !.latestModels = Arr(<<>>)]
             /\ result' = getAvailableModelsAfter(locals.defaultModels, Arr(<<>>), <<>>)
             /\ pc' = "done"
    /\ UNCHANGED <<config, userAgentInstance, now, op, args>>

\* the fetch() of fetchLatestModels() settles and getAvailableModels() runs to its end
Resume_getAvailableModels ==
    /\ pc = "models_wait"
    /\ op = "getAvailableModels"
    /\ \E resp \in ModelsResponses :
        LET latestModels == fetchLatestModelsAfter(resp)
            n == IF latestModels.t = "array" THEN Len(latestModels.v) ELSE 0
        IN \E ts \in ClockSeqs(now, n) :
            /\ history' = Append(history, Received("models", resp))
            /\ locals' = [locals EXCEPT !.latestModels = latestModels]
            /\ result' = getAvailableModelsAfter(locals.defaultModels, latestModels, ts)
            /\ now' = IF n = 0 THEN now ELSE ts[n]
    /\ inflight' = None
    /\ pc' = "done"
    /\ UNCHANGED <<config, userAgentInstance, op, args>>

InitModels == \E ids \in {DistinctIds, RepeatedIds} : InitWith(MakeConfig(TRUE, ids))

NextModels ==
    \/ Call_getAvailableModels
    \/ Resume_fetchLatestModels
    \/ Resume_getAvailableModels
    \/ ReturnToCaller

SpecModels == InitModels /\ [][NextModels]_vars

----------------------------------------------------------------------------
(* helpers.ts: the last-user-text extraction. *)

\* s.trim(): the whitespace tokens at both ends are dropped
RECURSIVE TrimStart(_)
TrimStart(s) == IF s # <<>> /\ Head(s) = " " THEN TrimStart(Tail(s)) ELSE s

RECURSIVE TrimEnd(_)
TrimEnd(s) ==
    IF s # <<>> /\ s[Len(s)] = " " THEN TrimEnd(SubSeq(s, 1, Len(s) - 1)) ELSE s

Trim(s) == TrimEnd(TrimStart(s))

RECURSIVE JoinTexts(_)
\* parts.map(part => part.text ?? "").join("")
JoinTexts(parts) ==
    IF parts = <<>> THEN <<>>
    ELSE StringOf(Coalesce(Get(Head(parts), "text"), Str(<<>>))) \o JoinTexts(Tail(parts))

Message(role, content, reasoning_content) ==
    [role |-> role, content |-> content, reasoning_content |-> reasoning_content]

extractMessageText(message) ==
    IF message.content.t = "string" THEN message.content.v
    ELSE IF message.content.t = "array" THEN Trim(JoinTexts(message.content.v))
    ELSE IF message.reasoning_content.t = "string" THEN message.reasoning_content.v
    ELSE <<>>

RECURSIVE LastUserFrom(_, _)
\* the loop of getLastUserMessageContent from index i down, and the fallback
LastUserFrom(messages, i) ==
    IF i = 0
    THEN IF messages = <<>> THEN <<>> ELSE extractMessageText(messages[Len(messages)])
    ELSE IF messages[i].role = "user" /\ extractMessageText(messages[i]) # <<>>
    THEN extractMessageText(messages[i])
    ELSE LastUserFrom(messages, i - 1)

RECURSIVE LastUserFrom_NoSkip(_, _)
\* the loop returning the text of the first user message it meets
LastUserFrom_NoSkip(messages, i) ==
    IF i = 0
    THEN IF messages = <<>> THEN <<>> ELSE extractMessageText(messages[Len(messages)])
    ELSE IF messages[i].role = "user"
    THEN extractMessageText(messages[i])
    ELSE LastUserFrom_NoSkip(messages, i - 1)

getLastUserMessageContent_NoSkip(messages) == LastUserFrom_NoSkip(messages, Len(messages))

getLastUserMessageContent(messages) == LastUserFrom(messages, Len(messages))

\* the messages a caller may pass
ContentParts ==
    {Obj(<<>>), Obj(<< <<"text", Str(<<"hi">>)>> >>), Obj(<< <<"text", Str(<<" ">>)>> >>)}

PartLists == UNION {[1..n -> ContentParts] : n \in 0..MaxParts}

Messages ==
    {Message(role, content, Undefined) :
        role \in {"user", "assistant"},
        content \in {Str(<<>>), Str(<<"hello">>), Str(<<" ">>)} \cup {Arr(ps) : ps \in PartLists}}
    \cup {Message(role, Undefined, rc) :
        role \in {"user", "assistant"}, rc \in {Undefined, Str(<<"thought">>)}}

MessageLists == UNION {[1..n -> Messages] : n \in 0..MaxMsgs}

\* getLastUserMessageContent(messages), as callUpstreamApi calls it
Call_getLastUserMessageContent ==
    /\ Idle
    /\ \E messages \in MessageLists :
        /\ op' = "getLastUserMessageContent"
        /\ args' = [messages |-> messages]
        /\ result' = Return(Str(getLastUserMessageContent(messages)))
    /\ locals' = None
    /\ pc' = "done"
    /\ UNCHANGED <<config, userAgentInstance, now, inflight, history>>

InitText == InitWith(MakeConfig(TRUE, DistinctIds))

NextText ==
    \/ Call_getLastUserMessageContent
    \/ ReturnToCaller

SpecText == InitText /\ [][NextText]_vars

DoneText == pc = "done" /\ op = "getLastUserMessageContent"

UserIndexes(messages) == {i \in 1..Len(messages) : messages[i].role = "user"}

Last(S) == CHOOSE i \in S : \A j \in S : j <= i

(* C4, as stated: the extraction returns the text of the last user-role    *)
(* message, whatever that text is; with no user-role message the text of   *)
(* the last message; for an empty list the empty string.                   *)
C4_LastUserTextAsClaimed ==
    DoneText =>
        LET messages == args.messages IN
        result.value.v =
            IF messages = <<>> THEN <<>>
            ELSE IF UserIndexes(messages) # {}
            THEN extractMessageText(messages[Last(UserIndexes(messages))])
            ELSE extractMessageText(messages[Len(messages)])

(* C4, amended: the extraction returns the text of the last user-role      *)
(* message whose extracted text is not empty; with no such message the     *)
(* text of the very last message; for an empty list the empty string.      *)
C4_LastUserText ==
    DoneText =>
        LET messages == args.messages
            speaking == {i \in UserIndexes(messages) :
                            extractMessageText(messages[i]) # <<>>}
        IN result.value.v =
            IF messages = <<>> THEN <<>>
            ELSE IF speaking # {}
            THEN extractMessageText(messages[Last(speaking)])
            ELSE extractMessageText(messages[Len(messages)])

C4_Witness_EmptyLastUser ==
    /\ DoneText
    /\ Len(args.messages) = 2
    /\ args.messages[1] = Message("user", Arr(<<Obj(<< <<"text", Str(<<"hi">>)>> >>),
                                                Obj(<< <<"text", Str(<<" ">>)>> >>)>>), Undefined)
    /\ args.messages[2] = Message("user", Str(<<>>), Undefined)
    /\ result.value = Str(<<"hi">>)

----------------------------------------------------------------------------
(* helpers.ts: the current signature and the upstream call. *)

\* generateChatSignature(e, t), the clock read at instant ts
generateChatSignature(e, t, ts) ==
    LET timestampMs == DateNow(ts)
        n == timestampMs \div (5 * 60 * 1000)
        intermediateKey == hmacSha256Hex(<<"junjie">>, <<ToString(n)>>)
        finalSignature ==
            hmacSha256Hex(intermediateKey, e \o <<"|">> \o t \o <<"|">> \o <<ToString(timestampMs)>>)
    IN [signature |-> finalSignature, timestamp |-> timestampMs]

\* url.searchParams.set(name, value): a name already there keeps its place
SearchParamsSet(query, name, value) == MapSet(query, name, value)

RECURSIVE SetEntries_Truthy(_, _)
\* the loop over Object.entries(params) skipping every falsy value
SetEntries_Truthy(query, entries) ==
    IF entries = <<>> THEN query
    ELSE LET key == Head(entries)[1]
             value == Head(entries)[2]
         IN SetEntries_Truthy(IF Truthy(value)
                              THEN SearchParamsSet(query, key, StringOf(value))
                              ELSE query,
                              Tail(entries))

RECURSIVE SetEntries(_, _)
\* the loop over Object.entries(upstreamReq.params)
SetEntries(query, entries) ==
    IF entries = <<>> THEN query
    ELSE LET key == Head(entries)[1]
             value == Head(entries)[2]
         IN SetEntries(IF value.t \notin {"undefined", "null"}
                       THEN SearchParamsSet(query, key, StringOf(value))
                       ELSE query,
                       Tail(entries))

\* typeof x === "object"
TypeofObject(x) == x.t \in {"object", "array", "null"}

\* Object.entries(x): the entries of an object, and of an array its elements
\* under their indices
ObjectEntries(x) ==
    IF x.t = "array"
    THEN [i \in 1..Len(x.v) |-> <<ToString(i - 1), x.v[i]>>]
    ELSE x.v

\* the query with the falsy values of params left out
AddParams_Truthy(query, params) ==
    IF Truthy(params) /\ TypeofObject(params)
    THEN SetEntries_Truthy(query, ObjectEntries(params))
    ELSE query

\* if (upstreamReq.params && typeof upstreamReq.params === "object") { ... }
AddParams(query, params) ==
    IF Truthy(params) /\ TypeofObject(params)
    THEN SetEntries(query, ObjectEntries(params))
    ELSE query

\* the query string callUpstreamApi builds
UpstreamQuery(requestId, timestamp, userId, signatureTimestamp, params) ==
    LET q1 == SearchParamsSet(<<>>, "requestId", requestId)
        q2 == SearchParamsSet(q1, "timestamp", timestamp)
        q3 == SearchParamsSet(q2, "user_id", userId)
        q4 == SearchParamsSet(q3, "signature_timestamp", <<ToString(signatureTimestamp)>>)
    IN AddParams(q4, params)

\* { ...upstreamReq } with params deleted
RequestPayload(upstreamReq) ==
    [k \in (DOMAIN upstreamReq) \ {"params"} |-> upstreamReq[k]]

\* callUpstreamApi throwing on a status outside 2xx
callUpstreamApiAfter_CheckOk(resp) ==
    IF resp.kind # "response" THEN Throw(resp.kind)
    ELSE IF ~IsOk(resp.status) THEN Throw("upstream status")
    ELSE Return(resp)

\* what callUpstreamApi comes to once its fetch() came to resp
callUpstreamApiAfter(resp) ==
    IF resp.kind # "response" THEN Throw(resp.kind) ELSE Return(resp)

\* crypto.randomUUID()
UUIDs == {<<"uuid-1">>, <<"uuid-2">>}

\* the requests a caller may pass: params holds some of these keys, in this
\* order, the last of them a name callUpstreamApi sets itself
ParamKeys == <<"a", "b", "requestId">>
ParamValues ==
    <<{Undefined, Null, Num(0), Str(<<"z">>)},
      {Null, Str(<<"z">>)},
      {Undefined, Str(<<"forged">>)}>>

RECURSIVE EntriesFrom(_)
EntriesFrom(i) ==
    IF i > Len(ParamKeys) THEN {<<>>}
    ELSE LET rest == EntriesFrom(i + 1)
         IN rest \cup {<< <<ParamKeys[i], v>> >> \o r : v \in ParamValues[i], r \in rest}

ParamsValues ==
    {Undefined, Null, Str(<<"a=1">>), Num(3), Arr(<<Str(<<"z">>), Null>>)}
        \cup {Obj(es) : es \in EntriesFrom(1)}

UpstreamMessages ==
    {Undefined,
     Arr(<<Message("user", Str(<<"hello">>), Undefined),
           Message("assistant", Str(<<"bye">>), Undefined)>>)}

UpstreamRequests ==
    {[model |-> Str(<<"GLM-4.5">>), messages |-> ms, params |-> ps] :
        ms \in UpstreamMessages, ps \in ParamsValues}

ChatIds == {<<>>, <<"chat-1">>}

UpstreamResponses ==
    {Failed("network-error"), Failed("timeout")}
        \cup {Response(status, Null) : status \in {200, 204, 301, 401, 500}}

\* callUpstreamApi(upstreamReq, chatId, authToken) up to its await of fetch()
Call_callUpstreamApi ==
    /\ Idle
    /\ \E upstreamReq \in UpstreamRequests, chatId \in ChatIds,
          r \in RandomUaIndex, slot \in RandomSlot,
          requestId \in UUIDs, userId \in UUIDs,
          t1 \in ClockReads :
        \E t2 \in t1..MaxTime :
        LET authToken == AnonToken
            ua == getUserAgentInstance(userAgentInstance, r)
            h0 == getBrowserHeaders(config, ua, browserChoices[slot], chatId)
            h1 == SetHeader(h0, "Authorization", <<"Bearer ">> \o authToken)
            timestamp == <<ToString(DateNow(t1))>>
            messages == IF upstreamReq.messages.t = "array"
                        THEN upstreamReq.messages.v ELSE <<>>
            lastMessageContent == getLastUserMessageContent(messages)
            signatureSource == <<"requestId,">> \o requestId \o <<",timestamp,">>
                                  \o timestamp \o <<",user_id,">> \o userId
            signed == generateChatSignature(signatureSource, lastMessageContent, t2)
            h2 == SetHeader(h1, "X-Signature", signed.signature)
            req == [endpoint |-> "chat",
                    method |-> "POST",
                    url |-> config.API_ENDPOINT,
                    query |-> UpstreamQuery(requestId, timestamp, userId,
                                            signed.timestamp, upstreamReq.params),
                    headers |-> h2,
                    body |-> RequestPayload(upstreamReq)]
        IN /\ requestId # userId
           /\ userAgentInstance' = ua
           /\ now' = t2
           /\ op' = "callUpstreamApi"
           /\ args' = [upstreamReq |-> upstreamReq, chatId |-> chatId,
                       authToken |-> authToken]
           /\ locals' = [requestId |-> requestId, timestamp |-> timestamp,
                         userId |-> userId, signatureSource |-> signatureSource,
                         lastMessageContent |-> lastMessageContent,
                         signature |-> signed.signature,
                         signatureTimestamp |-> signed.timestamp]
           /\ inflight' = req
           /\ history' = Append(history, Request(req))
           /\ pc' = "upstream_wait"
    /\ UNCHANGED <<config, result>>

\* the fetch() settles and callUpstreamApi returns or throws
Resume_callUpstreamApi ==
    /\ pc = "upstream_wait"
    /\ op = "callUpstreamApi"
    /\ \E resp \in UpstreamResponses :
        /\ history' = Append(history, Received("chat", resp))
        /\ result' = callUpstreamApiAfter(resp)
    /\ inflight' = None
    /\ locals' = None
    /\ pc' = "done"
    /\ UNCHANGED <<config, userAgentInstance, now, op, args>>

InitUpstream == InitWith(MakeConfig(TRUE, DistinctIds))

NextUpstream ==
    \/ Call_callUpstreamApi
    \/ Resume_callUpstreamApi
    \/ ReturnToCaller

SpecUpstream == InitUpstream /\ [][NextUpstream]_vars

Requested == pc = "upstream_wait" /\ op = "callUpstreamApi"

DoneUpstream == pc = "done" /\ op = "callUpstreamApi"

ChatResponse ==
    LET i == CHOOSE j \in 1..Len(history) :
                history[j].ev = "response" /\ history[j].endpoint = "chat"
    IN history[i].response

QueryNames(query) == {query[i][1] : i \in 1..Len(query)}

\* the value of the parameter name of query
QueryValue(query, name) ==
    LET i == CHOOSE j \in 1..Len(query) : query[j][1] = name IN query[i][2]

(* C5, as stated: callUpstreamApi raises on a network or timeout failure   *)
(* and on a status outside 2xx, and returns a response only for a success  *)
(* status.                                                                 *)
C5_RaisesAsClaimed ==
    DoneUpstream =>
        IF ChatResponse.kind = "response" /\ IsOk(ChatResponse.status)
        THEN result.kind = "return"
        ELSE result.kind = "throw"

(* C5, amended: callUpstreamApi raises only on a network or timeout        *)
(* failure; every response the upstream gives, whatever its status, is     *)
(* handed back to the caller as it is.                                     *)
C5_RaisesOnTransportOnly ==
    DoneUpstream =>
        IF ChatResponse.kind = "response"
        THEN result = Return(ChatResponse)
        ELSE result.kind = "throw"

C5_Witness_ErrorStatusReturned ==
    /\ DoneUpstream
    /\ ChatResponse.kind = "response"
    /\ ChatResponse.status = 500
    /\ result.kind = "return"
    /\ result.value.status = 500

\* the key/value pairs params maps: those of an object, those of an array
\* (its indices are its keys), and none for any other value
MappingOf(params) ==
    IF params.t = "object" THEN params.v
    ELSE IF params.t = "array"
    THEN [i \in 1..Len(params.v) |-> <<ToString(i - 1), params.v[i]>>]
    ELSE <<>>

\* the places of the pairs whose value is neither null nor undefined
Carried(params) ==
    {i \in 1..Len(MappingOf(params)) :
        MappingOf(params)[i][2].t \notin {"null", "undefined"}}

FixedNames == {"requestId", "timestamp", "user_id", "signature_timestamp"}

C10_UrlCarriesSignedValues ==
    Requested =>
        LET query == inflight.query IN
        /\ locals.signatureSource =
              <<"requestId,">> \o QueryValue(query, "requestId")
                 \o <<",timestamp,">> \o QueryValue(query, "timestamp")
                 \o <<",user_id,">> \o QueryValue(query, "user_id")
        /\ QueryValue(query, "signature_timestamp") = <<ToString(locals.signatureTimestamp)>>
        /\ inflight.headers["X-Signature"] = locals.signature

----------------------------------------------------------------------------
(* The claims about the model registry, read off the history of the call. *)

DoneModels == pc = "done" /\ op = "getAvailableModels"

ModelsAnswered == \E i \in 1..Len(history) :
                     history[i].ev = "response" /\ history[i].endpoint = "models"
ModelsResponse ==
    LET i == CHOOSE j \in 1..Len(history) :
                history[j].ev = "response" /\ history[j].endpoint = "models"
    IN history[i].response

\* the list the live fetch yielded: the data array of a 2xx JSON answer, and
\* the empty list when the token, the transport, the status or the body failed
LiveList ==
    IF /\ ModelsAnswered
       /\ ModelsResponse.kind = "response"
       /\ IsOk(ModelsResponse.status)
       /\ ModelsResponse.body.t = "object"
       /\ Get(ModelsResponse.body, "data").t = "array"
       /\ \A i \in 1..Len(Get(ModelsResponse.body, "data").v) :
             Get(ModelsResponse.body, "data").v[i].t \notin {"null", "undefined"}
    THEN Get(ModelsResponse.body, "data").v
    ELSE <<>>

\* list is what the static configuration gives: the seven configured ids in
\* order, each named by its id, owned by z.ai, all stamped with one instant
IsDefaultList(list) ==
    /\ Len(list) = Len(ModelFields)
    /\ \A i \in 1..Len(list) :
          /\ list[i].id = Str(<<config.MODELS[i]>>)
          /\ list[i].name = Str(<<config.MODELS[i]>>)
          /\ list[i].owned_by = Str(<<"z.ai">>)
    /\ \E t \in 0..now : \A i \in 1..Len(list) : list[i].created = Num(t)

(* C2: getAvailableModels never fails, and whenever the live fetch fails   *)
(* or yields an empty list it returns the list of getDefaultModels         *)
(* unchanged.                                                              *)
C2_DefaultsOnFailure ==
    DoneModels =>
        /\ result.kind = "return"
        /\ LiveList = <<>> =>
              /\ IsDefaultList(result.value)
              /\ result.value = locals.defaultModels

C2_Witness_MalformedBody ==
    /\ DoneModels
    /\ ModelsAnswered
    /\ ModelsResponse = Response(200, Obj(<< <<"data", Str(<<"oops">>)>> >>))
    /\ IsDefaultList(result.value)

(* C3: the list getAvailableModels returns holds no two entries with the   *)
(* same id, whatever the configured ids and the outcome of the fetch.      *)
C3_UniqueIds ==
    DoneModels =>
        \A i, j \in 1..Len(result.value) :
            i # j => result.value[i].id # result.value[j].id

IdsOf(list) == {list[i].id : i \in 1..Len(list)}
FetchedIds(list) == {Get(list[i], "id") : i \in 1..Len(list)}

\* the last model of list that bears id
LastWithId(list, id) ==
    LET i == CHOOSE j \in 1..Len(list) :
                /\ Get(list[j], "id") = id
                /\ \A k \in (j + 1)..Len(list) : Get(list[k], "id") # id
    IN list[i]

Present(x) == x.t # "undefined"

\* the first of a and b that is present, and c when neither is
FirstPresent(a, b, c) == IF Present(a) THEN a ELSE IF Present(b) THEN b ELSE c

\* the first of a and b that is truthy, and c when neither is
FirstTruthy(a, b, c) == IF Truthy(a) THEN a ELSE IF Truthy(b) THEN b ELSE c

SpecExample == << Obj(<< <<"id", Str(NewId)>>, <<"name", Str(<<"Foo">>)>> >>) >>

\* the list the models endpoint's data array held, null elements included
FetchedArray ==
    IF locals.latestModels.t = "array" THEN locals.latestModels.v ELSE <<>>

(* C6, as stated: with a non-empty fetched list the result keeps every     *)
(* default whose id was not fetched and holds, for every fetched model, an *)
(* entry whose name, created and owned_by are the top-level field if       *)
(* present, else the field of info, else the id, the current time and      *)
(* "z.ai"; one fetched model {id: X, name: "Foo"} gives len(defaults) + 1  *)
(* entries.                                                                *)
C6_OverlayAsClaimed ==
    (DoneModels /\ FetchedArray # <<>>) =>
        LET fetched == FetchedArray
            defaults == locals.defaultModels
            out == result.value
        IN /\ \A i \in 1..Len(defaults) :
                 defaults[i].id \notin FetchedIds(fetched) => defaults[i] \in Range(out)
           /\ \A i \in 1..Len(fetched) :
                 LET m == fetched[i]
                     info == Get(m, "info")
                 IN \E e \in Range(out) :
                       /\ e.id = Get(m, "id")
                       /\ e.name = FirstPresent(Get(m, "name"), OptGet(info, "name"), e.id)
                       /\ \E t \in 0..now :
                             e.created = FirstPresent(Get(m, "created"),
                                                      OptGet(info, "created_at"), Num(t))
                       /\ e.owned_by = FirstPresent(Get(m, "owned_by"),
                                                    OptGet(info, "user_id"), Str(<<"z.ai">>))
           /\ (fetched = SpecExample /\ Str(NewId) \notin IdsOf(defaults)) =>
                 Len(out) = Len(defaults) + 1

(* C6, amended: with a non-empty fetched list that holds no null element,  *)
(* the result holds one entry per id, the defaults' ids first; a default   *)
(* whose id was not fetched is kept as it is; the entry of a fetched id is *)
(* built from the last fetched model with that id, each field being the    *)
(* top-level field if truthy, else the field of info if truthy, else the   *)
(* id, the current time and "z.ai"; one fetched model {id: X, name: "Foo"} *)
(* gives one entry more than there are distinct default ids.               *)
C6_Overlay ==
    (DoneModels /\ LiveList # <<>>) =>
        LET fetched == LiveList
            defaults == locals.defaultModels
            out == result.value
        IN /\ IdsOf(out) = IdsOf(defaults) \cup FetchedIds(fetched)
           /\ Cardinality(IdsOf(out)) = Len(out)
           /\ \A i \in 1..Len(defaults) :
                 defaults[i].id \notin FetchedIds(fetched) => defaults[i] \in Range(out)
           /\ \A id \in FetchedIds(fetched) :
                 LET m == LastWithId(fetched, id)
                     info == Get(m, "info")
                 IN \E e \in Range(out) :
                       /\ e.id = id
                       /\ e.name = FirstTruthy(Get(m, "name"), OptGet(info, "name"), id)
                       /\ \E t \in 0..now :
                             e.created = FirstTruthy(Get(m, "created"),
                                                     OptGet(info, "created_at"), Num(t))
                       /\ e.owned_by = FirstTruthy(Get(m, "owned_by"),
                                                   OptGet(info, "user_id"), Str(<<"z.ai">>))
           /\ (fetched = SpecExample /\ Str(NewId) \notin IdsOf(defaults)) =>
                 /\ Len(out) = Cardinality(IdsOf(defaults)) + 1
                 /\ \E e \in Range(out) :
                       /\ e.id = Str(NewId)
                       /\ e.name = Str(<<"Foo">>)
                       /\ e.owned_by = Str(<<"z.ai">>)

C6_Witness_FalsyTopLevel ==
    /\ DoneModels
    /\ Len(LiveList) = 2
    /\ Get(LiveList[1], "id") = Str(DefaultId)
    /\ Get(LiveList[2], "name") = Str(<<>>)
    /\ Len(result.value) = Len(ModelFields) + 1
    /\ result.value[1].name = Str(<<"Bar">>)
    /\ result.value[Len(result.value)].name = Str(<<"InfoName">>)

RequestsTo(endpoint) ==
    {i \in 1..Len(history) : history[i].ev = "request" /\ history[i].endpoint = endpoint}

(* C9: the request to the models endpoint is issued only after the auths   *)
(* endpoint answered with a usable token, and bears that token; when the   *)
(* anonymous call fails no models request is issued, fetchLatestModels     *)
(* yields the empty list and the backup token is never sent; each endpoint *)
(* is asked at most once.                                                  *)
C9_ModelsAfterToken ==
    op = "getAvailableModels" =>
        /\ \A i \in RequestsTo("models") :
              \E j \in 1..(i - 1) :
                 /\ history[j].ev = "response" /\ history[j].endpoint = "auths"
                 /\ getAnonymousToken(history[j].response).kind = "return"
                 /\ getAnonymousToken(history[j].response).value.t = "string"
                 /\ getAnonymousToken(history[j].response).value.v # <<>>
                 /\ history[i].authorization =
                       Str(<<"Bearer ">> \o getAnonymousToken(history[j].response).value.v)
        /\ (AuthAnswered /\ getAnonymousToken(AuthResponse).kind = "throw") =>
              /\ RequestsTo("models") = {}
              /\ pc = "done"
              /\ locals.latestModels = Arr(<<>>)
        /\ \A i \in 1..Len(history) :
              history[i].ev = "request" =>
                 history[i].authorization # Str(<<"Bearer ">> \o config.BACKUP_TOKEN)
        /\ Cardinality(RequestsTo("auths")) <= 1
        /\ Cardinality(RequestsTo("models")) <= 1

C9_Witness_ModelsRequested ==
    /\ pc = "models_wait"
    /\ RequestsTo("models") # {}
    /\ inflight.headers["Authorization"] = <<"Bearer ">> \o AnonToken

----------------------------------------------------------------------------
(* C8: every header set getBrowserHeaders returns holds Content-Type,      *)
(* Accept, User-Agent and Origin, and holds sec-ch-ua if and only if the   *)
(* chosen identity is not Firefox; the same is true of every identity the  *)
(* switch knows, the cached fallback (ua.random) included.                 *)

HeadersComplete(h, isFirefox) ==
    /\ {"Content-Type", "Accept", "User-Agent", "Origin"} \subseteq DOMAIN h
    /\ ("sec-ch-ua" \in DOMAIN h) <=> ~isFirefox

====
